---- MODULE Spec2Model ----
(***************************************************************************)
(* Health monitor bot: the poll loop of HealthMonitorBot.start with its    *)
(* two-tier hysteresis, the start/stop command handlers, the auto-repay    *)
(* log listener, the persisted table behind the Supabase client and        *)
(* retryWithBackoff.  Node runs one handler at a time, so every action is  *)
(* the code between two awaits of one handler.                             *)
(***************************************************************************)
EXTENDS Integers, Sequences, FiniteSets, TLC

\* ---------------------------------------------------------------- bounds
MaxCycles == 1      \* poll cycles started, with commands interleaved
MaxPollCycles == 3  \* poll cycles started, the poll loop alone
MaxCmds == 2        \* start/stop commands received
MaxEvents == 1      \* log events delivered to the listener
MaxAttempts == 4    \* largest retries argument tried on retryWithBackoff
RawBelow == 25      \* raw healths tried go down to -RawBelow
RawAbove == 25      \* raw healths tried go up to 100 + RawAbove

\* ------------------------------------------------------ program constants
FIRST_THRESHOLD == 25
SECOND_THRESHOLD == 10
FIRST_THRESHOLD_WITH_BUFFER == 30
SECOND_THRESHOLD_WITH_BUFFER == 15
QUARTZ_HEALTH_BUFFER_PERCENTAGE == 10
PollRetries == 3
PollInitialDelay == 1000
GetUserInitialDelay == 500

\* ----------------------------------------------------------- input sets
Addrs == {"A", "B"}
Chats == {1, 2}
\* raw Drift health values; getQuartzHealth maps them to 10, 25, 27 and 40
RawSamples == {19, 33, 35, 46}
\* what one slot of the batch fetch can hold for an account: no user account
\* returned, a user account whose health computation throws, or a raw health
FetchInputs ==
    {[kind |-> "missing", raw |-> 0], [kind |-> "throws", raw |-> 0]}
        \cup {[kind |-> "user", raw |-> r] : r \in RawSamples}
\* error messages an awaited call can fail with; each retry profile looks
\* for one marker in the message
Errors == {"503", "HttpError", "other"}
Outcomes == {"ok"} \cup Errors
Delays == {GetUserInitialDelay, PollInitialDelay}
\* raw Drift healths given to getQuartzHealth on its own
HealthRaws == (0 - RawBelow)..(100 + RawAbove)

VARIABLES
    monitoredAccounts,  \* the Map, as the sequence of its records in insertion order
    db,                 \* table monitored_accounts: address -> row
    pendingUpdates,     \* updateAccount calls started and not yet settled
    unhandled,          \* promise rejections nobody awaited
    pc, entries, idx, cur, fetchRt, sendRt,   \* the poll loop
    cycle, pollWait, cycleLog, sentSince,     \* history of the poll loop
    cmds, ncmds, removed, addedBy,            \* command handlers in flight
    callLog,                                  \* addAccount / removeAccounts calls that settled
    ev, nev,                                  \* the log listener
    rt,                                       \* a free-standing retryWithBackoff call
    hq                                        \* a raw health and what getQuartzHealth made of it

pollVars == <<pc, entries, idx, cur, fetchRt, sendRt, cycle, pollWait, cycleLog, sentSince>>
cmdVars == <<cmds, ncmds, removed, addedBy, callLog>>
evVars == <<ev, nev>>
storeVars == <<monitoredAccounts, db, pendingUpdates, unhandled>>
vars == <<storeVars, pollVars, cmdVars, evVars, rt, hq>>

\* ------------------------------------------------------------- records
Rec(a, c, h, f, s) ==
    [address |-> a, chatId |-> c, lastHealth |-> h,
     notifyAtFirstThreshold |-> f, notifyAtSecondThreshold |-> s]

NoRec == Rec("none", 0, 0, FALSE, FALSE)

Has(accs, a) == \E i \in 1..Len(accs) : accs[i].address = a

Get(accs, a) ==
    IF Has(accs, a)
    THEN accs[CHOOSE i \in 1..Len(accs) : accs[i].address = a]
    ELSE NoRec

\* Map.set: an existing key keeps its place, a new key goes last
SetAccount(accs, r) ==
    IF Has(accs, r.address)
    THEN [i \in 1..Len(accs) |-> IF accs[i].address = r.address THEN r ELSE accs[i]]
    ELSE Append(accs, r)

RECURSIVE DeleteAccounts(_, _)
DeleteAccounts(accs, as) ==
    IF accs = << >> THEN << >>
    ELSE IF Head(accs).address \in as THEN DeleteAccounts(Tail(accs), as)
    ELSE <<Head(accs)>> \o DeleteAccounts(Tail(accs), as)

Keys(accs) == {accs[i].address : i \in 1..Len(accs)}

\* -------------------------------------------------------------- helpers
Max(a, b) == IF a >= b THEN a ELSE b
Min(a, b) == IF a <= b THEN a ELSE b

\* the result is not clamped below
getQuartzHealthUnclamped(driftHealth) ==
    IF driftHealth >= 100 THEN 100
    ELSE Min(100, (100 * (driftHealth - QUARTZ_HEALTH_BUFFER_PERCENTAGE))
                    \div (100 - QUARTZ_HEALTH_BUFFER_PERCENTAGE))

\* (driftHealth - B) / (1 - B/100) on integers is 100*(driftHealth - B)/(100 - B);
\* Math.floor after Math.max(0, .) is integer division of the clamped numerator
getQuartzHealth(driftHealth) ==
    IF driftHealth <= 0 THEN 0
    ELSE IF driftHealth >= 100 THEN 100
    ELSE Min(100, Max(0, 100 * (driftHealth - QUARTZ_HEALTH_BUFFER_PERCENTAGE))
                    \div (100 - QUARTZ_HEALTH_BUFFER_PERCENTAGE))

\* ------------------------------------------------------ retryWithBackoff
\* error?.message?.includes(errorContains)
IsTransient(outcome, errorContains) == outcome = errorContains

BackoffDelayDoubledEarly(initialDelay, i) == initialDelay * 2 ^ (i + 1)

BackoffDelay(initialDelay, i) == initialDelay * 2 ^ i

RetryStart(retries) ==
    [i |-> 0, calls |-> 0, waits |-> << >>,
     status |-> IF 0 < retries THEN "running" ELSE "thrown"]

RetryIdle == [i |-> 0, calls |-> 0, waits |-> << >>, status |-> "idle"]

\* a non-matching error is treated like a matching one
RetryStepRetriesAll(rs, errorContains, retries, initialDelay, outcome) ==
    IF outcome = "ok"
    THEN [rs EXCEPT !.calls = @ + 1, !.status = "returned"]
    ELSE [rs EXCEPT !.calls = @ + 1,
                    !.waits = Append(@, BackoffDelay(initialDelay, rs.i)),
                    !.i = @ + 1,
                    !.status = IF rs.i + 1 < retries THEN "running" ELSE "thrown"]

\* one pass of the loop body: fn() settles with outcome
RetryStep(rs, errorContains, retries, initialDelay, outcome) ==
    IF outcome = "ok"
    THEN [rs EXCEPT !.calls = @ + 1, !.status = "returned"]
    ELSE IF IsTransient(outcome, errorContains)
    THEN [rs EXCEPT !.calls = @ + 1,
                    !.waits = Append(@, BackoffDelay(initialDelay, rs.i)),
                    !.i = @ + 1,
                    !.status = IF rs.i + 1 < retries THEN "running" ELSE "thrown"]
    ELSE [rs EXCEPT !.calls = @ + 1, !.status = "thrown"]

retryRPCWithBackoff(rs, retries, initialDelay, outcome) ==
    RetryStep(rs, "503", retries, initialDelay, outcome)

retryHTTPWithBackoff(rs, retries, initialDelay, outcome) ==
    RetryStep(rs, "HttpError", retries, initialDelay, outcome)

\* ------------------------------------------------- threshold evaluation
\* both branches are tried, not the first that applies
EvaluateBothTiers(account, currentHealth) ==
    LET second == account.notifyAtSecondThreshold
                    /\ account.lastHealth > SECOND_THRESHOLD
                    /\ currentHealth <= SECOND_THRESHOLD
        first == account.notifyAtFirstThreshold
                    /\ account.lastHealth > FIRST_THRESHOLD
                    /\ currentHealth <= FIRST_THRESHOLD
    IN [tiers |-> (IF second THEN <<"second">> ELSE << >>)
                    \o (IF first THEN <<"first">> ELSE << >>),
        first |-> account.notifyAtFirstThreshold /\ ~first,
        second |-> account.notifyAtSecondThreshold /\ ~second]

\* the if / else-if of the poll loop: which message is sent and the flags after it
Evaluate(account, currentHealth) ==
    IF account.notifyAtSecondThreshold
        /\ account.lastHealth > SECOND_THRESHOLD
        /\ currentHealth <= SECOND_THRESHOLD
    THEN [tiers |-> <<"second">>,
          first |-> account.notifyAtFirstThreshold, second |-> FALSE]
    ELSE IF account.notifyAtFirstThreshold
        /\ account.lastHealth > FIRST_THRESHOLD
        /\ currentHealth <= FIRST_THRESHOLD
    THEN [tiers |-> <<"first">>,
          first |-> FALSE, second |-> account.notifyAtSecondThreshold]
    ELSE [tiers |-> << >>,
          first |-> account.notifyAtFirstThreshold,
          second |-> account.notifyAtSecondThreshold]

\* the first tier is re-armed at the raw threshold
RearmAtThreshold(currentHealth, first, second) ==
    [first |-> IF currentHealth >= FIRST_THRESHOLD THEN TRUE ELSE first,
     second |-> IF currentHealth >= SECOND_THRESHOLD_WITH_BUFFER THEN TRUE ELSE second]

\* the first tier is never re-armed
RearmSecondOnly(currentHealth, first, second) ==
    [first |-> first,
     second |-> IF currentHealth >= SECOND_THRESHOLD_WITH_BUFFER THEN TRUE ELSE second]

Rearm(currentHealth, first, second) ==
    [first |-> IF currentHealth >= FIRST_THRESHOLD_WITH_BUFFER THEN TRUE ELSE first,
     second |-> IF currentHealth >= SECOND_THRESHOLD_WITH_BUFFER THEN TRUE ELSE second]

\* ------------------------------------------------------------ poll loop
NoCur == [health |-> 0, first |-> FALSE, second |-> FALSE, tiers |-> << >>]

NoLog ==
    [seen |-> FALSE, cur |-> 0, tiers |-> << >>, delivered |-> << >>, chats |-> << >>,
     wrote |-> FALSE, rec |-> NoRec, err |-> "none", prev |-> "none"]

NoSent == [first |-> 0, second |-> 0, firstEver |-> 0, secondEver |-> 0, failed |-> "none"]

\* history: a computed health at or above a tier's buffered point ends the
\* count of that tier's deliveries; failed is the tier whose delivery failed
\* in the last cycle that computed a health for the account
Observe(s, h) ==
    [s EXCEPT !.first = IF h >= FIRST_THRESHOLD_WITH_BUFFER THEN 0 ELSE @,
              !.second = IF h >= SECOND_THRESHOLD_WITH_BUFFER THEN 0 ELSE @,
              !.failed = "none"]

Delivered(s, tier) ==
    IF tier = "first"
    THEN [s EXCEPT !.first = @ + 1, !.firstEver = @ + 1]
    ELSE [s EXCEPT !.second = @ + 1, !.secondEver = @ + 1]

\* lines 255-266: re-arm, Map.set of the snapshot's record with the new
\* health and flags, and the updateAccount call that nobody awaits
WriteBack(st, account, h, first, second) ==
    LET re == Rearm(h, first, second)
        r == Rec(account.address, account.chatId, h, re.first, re.second)
    IN [st EXCEPT !.accs = SetAccount(@, r),
                  !.pend = @ \cup {[rec |-> r, cycle |-> cycle]},
                  !.log[account.address].wrote = TRUE,
                  !.log[account.address].rec = r]

\* starts the send of the next message of st.cur.tiers
BeginSend(st, account, i) ==
    [st EXCEPT !.pc = "send", !.idx = i,
               !.log[account.address].tiers = Append(@, Head(st.cur.tiers)),
               !.log[account.address].chats = Append(@, account.chatId)]

\* the record is written only on the path that sent a message
RECURSIVE ProcessFromWritesOnNotify(_, _, _)
ProcessFromWritesOnNotify(i, inputs, st) ==
    IF i > Len(entries) THEN [st EXCEPT !.pc = "delay", !.idx = 0, !.cur = NoCur]
    ELSE
      LET account == entries[i]
          a == account.address
          inp == inputs[i]
      IN IF inp.kind = "missing"
         THEN ProcessFromWritesOnNotify(i + 1, inputs, [st EXCEPT !.log[a].err = "notFound"])
         ELSE IF inp.kind = "throws"
         THEN ProcessFromWritesOnNotify(i + 1, inputs, [st EXCEPT !.log[a].err = "health"])
         ELSE
           LET currentHealth == getQuartzHealth(inp.raw)
               st1 == [st EXCEPT !.log[a].seen = TRUE, !.log[a].cur = currentHealth,
                                 !.log[a].prev = st.since[a].failed,
                                 !.since[a] = Observe(@, currentHealth)]
               e == Evaluate(account, currentHealth)
           IN IF currentHealth = account.lastHealth \/ e.tiers = << >>
              THEN ProcessFromWritesOnNotify(i + 1, inputs, st1)
              ELSE BeginSend([st1 EXCEPT !.cur = [health |-> currentHealth,
                                                  first |-> e.first, second |-> e.second,
                                                  tiers |-> e.tiers]],
                             account, i)

\* the missing user account is logged but the entry is not skipped: it goes
\* on as raw health 0
RECURSIVE ProcessFromMissingAsZero(_, _, _)
ProcessFromMissingAsZero(i, inputs, st) ==
    IF i > Len(entries) THEN [st EXCEPT !.pc = "delay", !.idx = 0, !.cur = NoCur]
    ELSE
      LET account == entries[i]
          a == account.address
          inp == inputs[i]
      IN IF inp.kind = "throws"
         THEN ProcessFromMissingAsZero(i + 1, inputs, [st EXCEPT !.log[a].err = "health"])
         ELSE
           LET currentHealth == getQuartzHealth(inp.raw)
               st0 == IF inp.kind = "missing"
                      THEN [st EXCEPT !.log[a].err = "notFound"] ELSE st
               st1 == [st0 EXCEPT !.log[a].cur = currentHealth,
                                  !.log[a].seen = (inp.kind = "user"),
                                  !.log[a].prev = st.since[a].failed,
                                  !.since[a] = Observe(@, currentHealth)]
               e == Evaluate(account, currentHealth)
           IN IF currentHealth = account.lastHealth
              THEN ProcessFromMissingAsZero(i + 1, inputs, st1)
              ELSE IF e.tiers # << >>
              THEN BeginSend([st1 EXCEPT !.cur = [health |-> currentHealth,
                                                  first |-> e.first, second |-> e.second,
                                                  tiers |-> e.tiers]],
                             account, i)
              ELSE ProcessFromMissingAsZero(i + 1, inputs,
                               WriteBack(st1, account, currentHealth, e.first, e.second))

\* an unchanged health is not skipped
RECURSIVE ProcessFromNoSkip(_, _, _)
ProcessFromNoSkip(i, inputs, st) ==
    IF i > Len(entries) THEN [st EXCEPT !.pc = "delay", !.idx = 0, !.cur = NoCur]
    ELSE
      LET account == entries[i]
          a == account.address
          inp == inputs[i]
      IN IF inp.kind = "missing"
         THEN ProcessFromNoSkip(i + 1, inputs, [st EXCEPT !.log[a].err = "notFound"])
         ELSE IF inp.kind = "throws"
         THEN ProcessFromNoSkip(i + 1, inputs, [st EXCEPT !.log[a].err = "health"])
         ELSE
           LET currentHealth == getQuartzHealth(inp.raw)
               st1 == [st EXCEPT !.log[a].seen = TRUE, !.log[a].cur = currentHealth,
                                 !.log[a].prev = st.since[a].failed,
                                 !.since[a] = Observe(@, currentHealth)]
               e == Evaluate(account, currentHealth)
           IN IF e.tiers # << >>
              THEN BeginSend([st1 EXCEPT !.cur = [health |-> currentHealth,
                                                  first |-> e.first, second |-> e.second,
                                                  tiers |-> e.tiers]],
                             account, i)
              ELSE ProcessFromNoSkip(i + 1, inputs,
                               WriteBack(st1, account, currentHealth, e.first, e.second))

\* the for loop from entry i up to its next await (a send) or to its end;
\* inputs[j] is what the batch fetch returned for entry j
RECURSIVE ProcessFrom(_, _, _)
ProcessFrom(i, inputs, st) ==
    IF i > Len(entries) THEN [st EXCEPT !.pc = "delay", !.idx = 0, !.cur = NoCur]
    ELSE
      LET account == entries[i]
          a == account.address
          inp == inputs[i]
      IN IF inp.kind = "missing"
         THEN ProcessFrom(i + 1, inputs, [st EXCEPT !.log[a].err = "notFound"])
         ELSE IF inp.kind = "throws"
         THEN ProcessFrom(i + 1, inputs, [st EXCEPT !.log[a].err = "health"])
         ELSE
           LET currentHealth == getQuartzHealth(inp.raw)
               st1 == [st EXCEPT !.log[a].seen = TRUE, !.log[a].cur = currentHealth,
                                 !.log[a].prev = st.since[a].failed,
                                 !.since[a] = Observe(@, currentHealth)]
               e == Evaluate(account, currentHealth)
           IN IF currentHealth = account.lastHealth
              THEN ProcessFrom(i + 1, inputs, st1)
              ELSE IF e.tiers # << >>
              THEN BeginSend([st1 EXCEPT !.cur = [health |-> currentHealth,
                                                  first |-> e.first, second |-> e.second,
                                                  tiers |-> e.tiers]],
                             account, i)
              ELSE ProcessFrom(i + 1, inputs,
                               WriteBack(st1, account, currentHealth, e.first, e.second))

PollState ==
    [accs |-> monitoredAccounts, pend |-> pendingUpdates, log |-> cycleLog,
     since |-> sentSince, pc |-> pc, idx |-> idx, cur |-> cur]

Commit(st) ==
    /\ monitoredAccounts' = st.accs
    /\ pendingUpdates' = st.pend
    /\ cycleLog' = st.log
    /\ sentSince' = st.since
    /\ pc' = st.pc
    /\ idx' = st.idx
    /\ cur' = st.cur

\* line 185: the snapshot, and the first fetch attempt goes out
PollSnapshot(limit) ==
    /\ pc = "top"
    /\ cycle < limit
    /\ cycle' = cycle + 1
    /\ entries' = monitoredAccounts
    /\ fetchRt' = RetryStart(PollRetries)
    /\ cycleLog' = [a \in Addrs |-> NoLog]
    /\ pollWait' = "none"
    /\ pc' = "fetch"
    /\ UNCHANGED <<idx, cur, sendRt, sentSince, storeVars, cmdVars, evVars, rt, hq>>

\* lines 189-199: one attempt of the batch fetch settles; a thrown retry is
\* logged and the loop continues at its head
PollFetch(outcome, inputs) ==
    /\ pc = "fetch"
    /\ LET rs == retryRPCWithBackoff(fetchRt, PollRetries, PollInitialDelay, outcome)
       IN IF rs.status = "running"
          THEN /\ fetchRt' = rs
               /\ UNCHANGED <<pc, idx, cur, monitoredAccounts, pendingUpdates,
                              cycleLog, sentSince, entries>>
          ELSE IF rs.status = "thrown"
          THEN /\ fetchRt' = RetryIdle
               /\ pc' = "top"
               /\ entries' = << >>
               /\ UNCHANGED <<idx, cur, monitoredAccounts, pendingUpdates,
                              cycleLog, sentSince>>
          ELSE /\ fetchRt' = RetryIdle
               /\ Commit(ProcessFrom(1, inputs, PollState))
               /\ UNCHANGED entries
    /\ sendRt' = IF pc' = "send" THEN RetryStart(PollRetries) ELSE RetryIdle
    /\ UNCHANGED <<cycle, pollWait, db, unhandled, cmdVars, evVars, rt, hq>>

\* a delivery that failed for good is followed by the write of the record,
\* with the tier disarmed
PollSendWritesOnFailure(outcome, inputs) ==
    /\ pc = "send"
    /\ LET rs == retryHTTPWithBackoff(sendRt, PollRetries, PollInitialDelay, outcome)
           account == entries[idx]
           a == account.address
           tier == Head(cur.tiers)
           st == PollState
       IN IF rs.status = "running"
          THEN /\ sendRt' = rs
               /\ UNCHANGED <<pc, idx, cur, monitoredAccounts, pendingUpdates,
                              cycleLog, sentSince>>
          ELSE /\ IF rs.status = "thrown"
                  THEN Commit(ProcessFrom(idx + 1, inputs,
                                          WriteBack([st EXCEPT !.log[a].err = "send",
                                                               !.since[a].failed = tier],
                                                    account, cur.health,
                                                    cur.first, cur.second)))
                  ELSE LET st1 == [st EXCEPT !.since[a] = Delivered(@, tier),
                                             !.log[a].delivered = Append(@, tier),
                                             !.cur.tiers = Tail(@)]
                       IN IF st1.cur.tiers # << >>
                          THEN Commit(BeginSend(st1, account, idx))
                          ELSE Commit(ProcessFrom(idx + 1, inputs,
                                        WriteBack(st1, account, cur.health,
                                                  cur.first, cur.second)))
               /\ sendRt' = IF pc' = "send" THEN RetryStart(PollRetries) ELSE RetryIdle
    /\ UNCHANGED <<entries, fetchRt, cycle, pollWait, db, unhandled, cmdVars, evVars, rt, hq>>

\* lines 227-253: one attempt of the notification send settles
PollSend(outcome, inputs) ==
    /\ pc = "send"
    /\ LET rs == retryHTTPWithBackoff(sendRt, PollRetries, PollInitialDelay, outcome)
           account == entries[idx]
           a == account.address
           tier == Head(cur.tiers)
           st == PollState
       IN IF rs.status = "running"
          THEN /\ sendRt' = rs
               /\ UNCHANGED <<pc, idx, cur, monitoredAccounts, pendingUpdates,
                              cycleLog, sentSince>>
          ELSE /\ IF rs.status = "thrown"
                  THEN Commit(ProcessFrom(idx + 1, inputs,
                                          [st EXCEPT !.log[a].err = "send",
                                                     !.since[a].failed = tier]))
                  ELSE LET st1 == [st EXCEPT !.since[a] = Delivered(@, tier),
                                             !.log[a].delivered = Append(@, tier),
                                             !.cur.tiers = Tail(@)]
                       IN IF st1.cur.tiers # << >>
                          THEN Commit(BeginSend(st1, account, idx))
                          ELSE Commit(ProcessFrom(idx + 1, inputs,
                                        WriteBack(st1, account, cur.health,
                                                  cur.first, cur.second)))
               /\ sendRt' = IF pc' = "send" THEN RetryStart(PollRetries) ELSE RetryIdle
    /\ UNCHANGED <<entries, fetchRt, cycle, pollWait, db, unhandled, cmdVars, evVars, rt, hq>>

\* line 272: the inter-cycle delay; the snapshot and the per-cycle history
\* are dead from here on
PollDelay ==
    /\ pc = "delay"
    /\ pc' = "top"
    /\ pollWait' = "loop"
    /\ entries' = << >>
    /\ cycleLog' = [a \in Addrs |-> NoLog]
    /\ UNCHANGED <<idx, cur, fetchRt, sendRt, cycle, sentSince,
                   storeVars, cmdVars, evVars, rt, hq>>

\* ------------------------------------------------------- persisted table
\* Supabase.updateAccount settles: entryExists, then the update of the row.
\* bot.ts:266 does not await the call, so a rejection reaches no handler.
DbUpdateSettle(u, outcome) ==
    /\ u \in pendingUpdates
    /\ pendingUpdates' = pendingUpdates \ {u}
    /\ IF outcome = "ok" /\ db[u.rec.address] # NoRec
       THEN /\ db' = [db EXCEPT ![u.rec.address] =
                        [@ EXCEPT !.lastHealth = u.rec.lastHealth,
                                  !.notifyAtFirstThreshold = u.rec.notifyAtFirstThreshold,
                                  !.notifyAtSecondThreshold = u.rec.notifyAtSecondThreshold]]
            /\ UNCHANGED unhandled
       ELSE /\ unhandled' = unhandled \cup {u.rec.address}
            /\ UNCHANGED db
    /\ UNCHANGED <<monitoredAccounts, pollVars, cmdVars, evVars, rt, hq>>

\* bot.ts:266 leaves the promise of updateAccount to itself: once it has
\* rejected, node raises the rejection as an uncaught exception and the
\* process ends, unless code outside this file installed a handler for
\* 'unhandledRejection'; both outcomes are left open
ProcessExit ==
    /\ unhandled # {}
    /\ pc # "exit"
    /\ pc' = "exit"
    /\ pendingUpdates' = {}
    /\ UNCHANGED <<monitoredAccounts, db, unhandled, entries, idx, cur, fetchRt, sendRt,
                   cycle, pollWait, cycleLog, sentSince, cmdVars, evVars, rt, hq>>

\* ------------------------------------------------------ command handlers
Handler(kind, a, c, h, at, as) ==
    [kind |-> kind, address |-> a, chatId |-> c, health |-> h,
     pc |-> at, addresses |-> as]

\* history: how a persisted-storage call of a command handler ended
Settled(call, ok) == [call |-> call, ok |-> ok]

\* the chat sends an address: startMonitoring runs up to its await of getUser
StartCall(a, c) ==
    /\ ncmds < MaxCmds
    /\ ncmds' = ncmds + 1
    /\ cmds' = cmds \cup {Handler("start", a, c, 0, "getUser", {})}
    /\ UNCHANGED <<removed, addedBy, callLog, storeVars, pollVars, evVars, rt, hq>>

\* lines 78-98: getUser settles; a failure or an address already in the Map
\* ends the handler with a reply, otherwise addAccount is called
StartGetUser(h, outcome, raw) ==
    /\ h \in cmds /\ h.kind = "start" /\ h.pc = "getUser"
    /\ IF outcome # "ok" \/ Has(monitoredAccounts, h.address)
       THEN cmds' = cmds \ {h}
       ELSE cmds' = (cmds \ {h})
                \cup {[h EXCEPT !.pc = "exists", !.health = getQuartzHealth(raw)]}
    /\ UNCHANGED <<ncmds, removed, addedBy, callLog, storeVars, pollVars, evVars, rt, hq>>

\* Supabase.addAccount, entryExists: an existing row or a failed read throws
StartExists(h, outcome) ==
    /\ h \in cmds /\ h.kind = "start" /\ h.pc = "exists"
    /\ IF outcome # "ok" \/ db[h.address] # NoRec
       THEN /\ cmds' = cmds \ {h}
            /\ callLog' = Append(callLog, Settled("addAccount", FALSE))
       ELSE /\ cmds' = (cmds \ {h}) \cup {[h EXCEPT !.pc = "insert"]}
            /\ UNCHANGED callLog
    /\ UNCHANGED <<ncmds, removed, addedBy, storeVars, pollVars, evVars, rt, hq>>

\* table monitored_accounts: address is its key, an insert of an address
\* that has a row is refused
RowInsertable(a) == db[a] = NoRec

\* the insert goes through whatever rows the table has
StartInsertOverwrites(h, outcome) ==
    /\ h \in cmds /\ h.kind = "start" /\ h.pc = "insert"
    /\ cmds' = cmds \ {h}
    /\ IF outcome = "ok"
       THEN LET r == Rec(h.address, h.chatId, h.health,
                         h.health >= FIRST_THRESHOLD_WITH_BUFFER,
                         h.health >= SECOND_THRESHOLD_WITH_BUFFER)
            IN /\ db' = [db EXCEPT ![h.address] = r]
               /\ monitoredAccounts' = SetAccount(monitoredAccounts, r)
               /\ sentSince' = [sentSince EXCEPT ![h.address] = NoSent]
               /\ removed' = removed \ {h.address}
               /\ addedBy' = [addedBy EXCEPT ![h.address] = h.chatId]
               /\ callLog' = Append(callLog, Settled("addAccount", TRUE))
       ELSE /\ callLog' = Append(callLog, Settled("addAccount", FALSE))
            /\ UNCHANGED <<db, monitoredAccounts, sentSince, removed, addedBy>>
    /\ UNCHANGED <<ncmds, pendingUpdates, unhandled, pc, entries, idx, cur, fetchRt,
                   sendRt, cycle, pollWait, cycleLog, evVars, rt, hq>>

\* Supabase.addAccount, insert, then lines 99-105: the row is written and the
\* record is put in the Map; a failed insert throws past the Map.set
StartInsert(h, outcome) ==
    /\ h \in cmds /\ h.kind = "start" /\ h.pc = "insert"
    /\ cmds' = cmds \ {h}
    /\ IF outcome = "ok" /\ RowInsertable(h.address)
       THEN LET r == Rec(h.address, h.chatId, h.health,
                         h.health >= FIRST_THRESHOLD_WITH_BUFFER,
                         h.health >= SECOND_THRESHOLD_WITH_BUFFER)
            IN /\ db' = [db EXCEPT ![h.address] = r]
               /\ monitoredAccounts' = SetAccount(monitoredAccounts, r)
               /\ sentSince' = [sentSince EXCEPT ![h.address] = NoSent]
               /\ removed' = removed \ {h.address}
               /\ addedBy' = [addedBy EXCEPT ![h.address] = h.chatId]
               /\ callLog' = Append(callLog, Settled("addAccount", TRUE))
       ELSE /\ callLog' = Append(callLog, Settled("addAccount", FALSE))
            /\ UNCHANGED <<db, monitoredAccounts, sentSince, removed, addedBy>>
    /\ UNCHANGED <<ncmds, pendingUpdates, unhandled, pc, entries, idx, cur, fetchRt,
                   sendRt, cycle, pollWait, cycleLog, evVars, rt, hq>>

\* lines 135-148: the chat sends /stop; its addresses are collected and
\* removeAccounts is called, or the chat is told it has none
StopCall(c) ==
    /\ ncmds < MaxCmds
    /\ ncmds' = ncmds + 1
    /\ LET as == {a \in Keys(monitoredAccounts) : Get(monitoredAccounts, a).chatId = c}
       IN IF as = {}
          THEN UNCHANGED cmds
          ELSE cmds' = cmds \cup {Handler("stop", "none", c, 0, "remove", as)}
    /\ UNCHANGED <<removed, addedBy, callLog, storeVars, pollVars, evVars, rt, hq>>

\* the keys are deleted from the Map whether removeAccounts succeeded or not
StopRemoveDeletesAnyway(h, outcome) ==
    /\ h \in cmds /\ h.kind = "stop" /\ h.pc = "remove"
    /\ cmds' = cmds \ {h}
    /\ monitoredAccounts' = DeleteAccounts(monitoredAccounts, h.addresses)
    /\ IF outcome = "ok"
       THEN /\ db' = [a \in Addrs |-> IF a \in h.addresses THEN NoRec ELSE db[a]]
            /\ removed' = removed \cup h.addresses
       ELSE UNCHANGED <<db, removed>>
    /\ callLog' = Append(callLog, Settled("removeAccounts", outcome = "ok"))
    /\ UNCHANGED <<ncmds, addedBy, pendingUpdates, unhandled, pollVars, evVars, rt, hq>>

\* lines 148-151: removeAccounts settles; the keys are deleted from the Map
\* only after it succeeded
StopRemove(h, outcome) ==
    /\ h \in cmds /\ h.kind = "stop" /\ h.pc = "remove"
    /\ cmds' = cmds \ {h}
    /\ IF outcome = "ok"
       THEN /\ db' = [a \in Addrs |-> IF a \in h.addresses THEN NoRec ELSE db[a]]
            /\ monitoredAccounts' = DeleteAccounts(monitoredAccounts, h.addresses)
            /\ removed' = removed \cup h.addresses
       ELSE UNCHANGED <<db, monitoredAccounts, removed>>
    /\ callLog' = Append(callLog, Settled("removeAccounts", outcome = "ok"))
    /\ UNCHANGED <<ncmds, addedBy, pendingUpdates, unhandled, pollVars, evVars, rt, hq>>

\* ---------------------------------------------------- auto-repay listener
\* an instruction of the fetched transaction: one the coder does not decode
\* as AutoRepayStart, or an AutoRepayStart with its caller and owner accounts
Ixs ==
    {[kind |-> "other", caller |-> "none", owner |-> "none"]}
        \cup UNION {{[kind |-> "AutoRepayStart", caller |-> c, owner |-> o] :
                        c \in {o, "K"}} : o \in Addrs}

Txs == {<<x>> : x \in Ixs} \cup {<<x, y>> : x \in Ixs, y \in Ixs}

NoHit == [set |-> FALSE, caller |-> "none", owner |-> "none", monitored |-> FALSE, chat |-> 0]

EvIdle ==
    [pc |-> "idle", ixs |-> << >>, i |-> 0, attempts |-> << >>, delivered |-> << >>,
     logs |-> << >>, hit |-> NoHit]

\* lines 295-329: the loop over the instructions from position i up to the
\* await of a send, a return or the throw after the loop
RECURSIVE EvLoop(_, _)
EvLoop(e, i) ==
    IF i > Len(e.ixs)
    THEN [e EXCEPT !.pc = "done", !.logs = Append(@, "error: Could not decode instruction")]
    ELSE
      LET ix == e.ixs[i]
          monitoredAccount == Get(monitoredAccounts, ix.owner)
          e1 == IF e.hit.set THEN e
                ELSE [e EXCEPT !.hit = [set |-> TRUE, caller |-> ix.caller,
                                        owner |-> ix.owner,
                                        monitored |-> Has(monitoredAccounts, ix.owner),
                                        chat |-> monitoredAccount.chatId]]
      IN IF ix.kind # "AutoRepayStart" THEN EvLoop(e, i + 1)
         ELSE IF Has(monitoredAccounts, ix.owner)
         THEN IF ix.caller = ix.owner
              THEN [e1 EXCEPT !.pc = "done", !.logs = Append(@, "manual repay")]
              ELSE [e1 EXCEPT !.pc = "send", !.i = i,
                              !.attempts = Append(@, monitoredAccount.chatId)]
         ELSE IF ix.caller # ix.owner
              THEN [e1 EXCEPT !.pc = "done",
                              !.logs = Append(@, "auto-repay for unmonitored account")]
              ELSE [e1 EXCEPT !.pc = "done"]

\* onLogs delivers a log batch that names the instruction; getTransaction is awaited
LogEvent(tx) ==
    /\ nev < MaxEvents
    /\ ev.pc \in {"idle", "done"}
    /\ nev' = nev + 1
    /\ ev' = [EvIdle EXCEPT !.pc = "getTx", !.ixs = tx]
    /\ UNCHANGED <<storeVars, pollVars, cmdVars, rt, hq>>

\* lines 285-289: getTransaction settles
EvGetTx(outcome) ==
    /\ ev.pc = "getTx"
    /\ ev' = IF outcome = "ok" THEN EvLoop(ev, 1)
             ELSE [ev EXCEPT !.pc = "done", !.logs = Append(@, "error: Transaction not found")]
    /\ UNCHANGED <<nev, storeVars, pollVars, cmdVars, rt, hq>>

\* lines 315-326: the send settles; a rejection is caught by the catch
\* around the decode, which goes on to the next instruction
EvSend(outcome) ==
    /\ ev.pc = "send"
    /\ ev' = IF outcome = "ok"
             THEN [ev EXCEPT !.pc = "done",
                             !.delivered = Append(@, ev.attempts[Len(ev.attempts)]),
                             !.logs = Append(@, "auto-repay notification sent")]
             ELSE EvLoop(ev, ev.i + 1)
    /\ UNCHANGED <<nev, storeVars, pollVars, cmdVars, rt, hq>>

\* ------------------------------------------- a retryWithBackoff call alone
RtIdle ==
    [errorContains |-> "503", retries |-> 0, initialDelay |-> PollInitialDelay,
     rs |-> RetryIdle, outs |-> << >>]

\* fn() settles once more with outcome
RtInvoke(outcome) ==
    /\ rt.rs.status = "running"
    /\ rt' = [rt EXCEPT !.rs = RetryStep(rt.rs, rt.errorContains, rt.retries,
                                         rt.initialDelay, outcome),
                        !.outs = Append(@, outcome)]
    /\ UNCHANGED <<storeVars, pollVars, cmdVars, evVars, hq>>

\* --------------------------------------------- a getQuartzHealth call alone
HqIdle == [raw |-> 0, health |-> 0, done |-> FALSE]

\* driftUser.getHealth() gave hq.raw; getQuartzHealth returns
ComputeHealth ==
    /\ ~hq.done
    /\ hq' = [hq EXCEPT !.health = getQuartzHealth(hq.raw), !.done = TRUE]
    /\ UNCHANGED <<storeVars, pollVars, cmdVars, evVars, rt>>

\* ---------------------------------------------------------- specification
\* loadStoredAccounts: the Map starts as the table of an earlier run, here
\* empty or one account as startMonitoring stored it
StoredAccounts ==
    {<< >>} \cup {<<Rec("A", 1, getQuartzHealth(raw),
                        getQuartzHealth(raw) >= FIRST_THRESHOLD_WITH_BUFFER,
                        getQuartzHealth(raw) >= SECOND_THRESHOLD_WITH_BUFFER)>> :
                    raw \in RawSamples}

InitMain ==
    /\ db = [a \in Addrs |-> Get(monitoredAccounts, a)]
    /\ pendingUpdates = {}
    /\ unhandled = {}
    /\ pc = "top"
    /\ entries = << >>
    /\ idx = 0
    /\ cur = NoCur
    /\ fetchRt = RetryIdle
    /\ sendRt = RetryIdle
    /\ cycle = 0
    /\ pollWait = "none"
    /\ cycleLog = [a \in Addrs |-> NoLog]
    /\ sentSince = [a \in Addrs |-> NoSent]
    /\ cmds = {}
    /\ ncmds = 0
    /\ removed = {}
    /\ addedBy = [a \in Addrs |-> Get(monitoredAccounts, a).chatId]
    /\ callLog = << >>
    /\ ev = EvIdle
    /\ nev = 0

Init == monitoredAccounts \in StoredAccounts /\ InitMain /\ rt = RtIdle /\ hq = HqIdle

\* a failed fetch returns nothing
NoInputs == [j \in 1..Len(entries) |-> [kind |-> "missing", raw |-> 0]]

\* what the fetch returned for the entries after the one being sent for
RestInputs ==
    {[j \in 1..Len(entries) |-> IF j <= idx THEN [kind |-> "missing", raw |-> 0] ELSE f[j]] :
        f \in [1..Len(entries) -> FetchInputs]}

Poll(limit) ==
    \/ PollSnapshot(limit)
    \/ \E o \in Errors : PollFetch(o, NoInputs)
    \/ \E inputs \in [1..Len(entries) -> FetchInputs] : PollFetch("ok", inputs)
    \/ \E o \in Outcomes, inputs \in RestInputs : PollSend(o, inputs)
    \/ PollDelay

Store == \E u \in pendingUpdates, o \in {"ok", "503"} : DbUpdateSettle(u, o)

Commands ==
    \/ \E a \in Addrs, c \in Chats : StartCall(a, c)
    \/ \E h \in cmds, o \in {"ok", "other"}, raw \in RawSamples : StartGetUser(h, o, raw)
    \/ \E h \in cmds, o \in {"ok", "503"} : StartExists(h, o)
    \/ \E h \in cmds, o \in {"ok", "503"} : StartInsert(h, o)
    \/ \E c \in Chats : StopCall(c)
    \/ \E h \in cmds, o \in {"ok", "503"} : StopRemove(h, o)

Listener ==
    \/ \E tx \in Txs : LogEvent(tx)
    \/ \E o \in {"ok", "other"} : EvGetTx(o)
    \/ \E o \in {"ok", "HttpError"} : EvSend(o)

Next == Poll(MaxCycles) \/ Store \/ Commands

Spec == Init /\ [][Next]_vars

NextListener == Commands \/ Listener

SpecListener == Init /\ [][NextListener]_vars

\* the poll loop alone, over one or two accounts stored by an earlier run
StoredForPoll ==
    LET R(a, c, raw) == Rec(a, c, getQuartzHealth(raw),
                            getQuartzHealth(raw) >= FIRST_THRESHOLD_WITH_BUFFER,
                            getQuartzHealth(raw) >= SECOND_THRESHOLD_WITH_BUFFER)
    IN {<<R("A", 1, x)>> : x \in RawSamples}
        \cup {<<R("A", 1, x), R("B", 2, y)>> : x \in RawSamples, y \in RawSamples}

InitPoll ==
    /\ monitoredAccounts \in StoredForPoll
    /\ InitMain
    /\ rt = RtIdle
    /\ hq = HqIdle

NextPoll == Poll(MaxPollCycles)

SpecPoll == InitPoll /\ [][NextPoll]_vars

InitRetry ==
    /\ monitoredAccounts = << >>
    /\ InitMain
    /\ \E m \in {"503", "HttpError"}, n \in 0..MaxAttempts, d \in Delays :
          rt = [errorContains |-> m, retries |-> n, initialDelay |-> d,
                rs |-> RetryStart(n), outs |-> << >>]
    /\ hq = HqIdle

NextRetry == \E o \in Outcomes : RtInvoke(o)

SpecRetry == InitRetry /\ [][NextRetry]_vars

\* the poll loop with the updateAccount calls it leaves behind
NextStore == Poll(MaxPollCycles) \/ Store

SpecStore == Init /\ [][NextStore]_vars

\* the poll loop and its updates under the scheduling of node: an awaited
\* call settles, a timer fires, and a promise nobody awaits settles too
NextLive == Poll(MaxPollCycles) \/ Store \/ ProcessExit

SpecLive ==
    /\ Init
    /\ [][NextLive]_vars
    /\ WF_vars(Poll(MaxPollCycles))
    /\ WF_vars(Store)

\* getQuartzHealth on its own, and in startMonitoring and the poll loop, for
\* one raw health out of HealthRaws
InitHealth ==
    /\ monitoredAccounts \in StoredAccounts
    /\ InitMain
    /\ rt = RtIdle
    /\ \E r \in HealthRaws : hq = [raw |-> r, health |-> 0, done |-> FALSE]

NextHealth ==
    \/ ComputeHealth
    \/ StartCall("B", 2)
    \/ \E h \in cmds : StartGetUser(h, "ok", hq.raw)
    \/ \E h \in cmds : StartExists(h, "ok")
    \/ \E h \in cmds : StartInsert(h, "ok")
    \/ PollSnapshot(MaxCycles)
    \/ PollFetch("ok", [j \in 1..Len(entries) |-> [kind |-> "user", raw |-> hq.raw]])
    \/ PollSend("ok", NoInputs)
    \/ PollDelay

SpecHealth == InitHealth /\ [][NextHealth]_vars

\* ------------------------------------------------------------ properties

\* C4: a call with maxAttempts = n whose operation fails with the marker
\* exactly k < n times and then succeeds has returned after k+1 invocations
\* and exactly k waits, of initialDelay, 2*initialDelay, ... in that order.
C4_TransientThenSuccess ==
    \A k \in 0..MaxAttempts :
        (/\ k < rt.retries
         /\ Len(rt.outs) = k + 1
         /\ \A j \in 1..k : rt.outs[j] = rt.errorContains
         /\ rt.outs[k + 1] = "ok")
        => /\ rt.rs.status = "returned"
           /\ rt.rs.calls = k + 1
           /\ Len(rt.rs.waits) = k
           /\ \A j \in 1..k : rt.rs.waits[j] = rt.initialDelay * 2 ^ (j - 1)

C4_Witness ==
    /\ rt.retries = 3
    /\ rt.outs = <<rt.errorContains, rt.errorContains, "ok">>
    /\ rt.rs.status = "returned"
    /\ rt.rs.waits = <<rt.initialDelay, 2 * rt.initialDelay>>

\* C5: a failure without the marker ends the call where it occurs: it is the
\* last invocation, the call has thrown, and the only waits are those of the
\* marker failures before it.
C5_OtherFailurePropagates ==
    \A n \in 1..Len(rt.outs) :
        (rt.outs[n] # "ok" /\ rt.outs[n] # rt.errorContains)
        => /\ n = Len(rt.outs)
           /\ rt.rs.status = "thrown"
           /\ rt.rs.calls = n
           /\ Len(rt.rs.waits) = n - 1
           /\ \A j \in 1..(n - 1) : rt.outs[j] = rt.errorContains

C5_Witness ==
    /\ Len(rt.outs) = 2
    /\ rt.outs[1] = rt.errorContains
    /\ rt.outs[2] \notin {"ok", rt.errorContains}
    /\ rt.rs.status = "thrown"
    /\ Len(rt.rs.waits) = 1

\* the entries of the running cycle's snapshot
Snapshot == {entries[i] : i \in 1..Len(entries)}

\* C1: in one poll cycle at most one threshold notification is attempted per
\* account; when the stored health is above both thresholds, both tiers are
\* armed and the new health is at or below SECOND_THRESHOLD, the one message
\* is the second-tier one, and the record written after it has the second
\* tier disarmed and the first tier armed.
C1_OneNotificationPerCycle ==
    /\ \A a \in Addrs : Len(cycleLog[a].tiers) <= 1
    /\ \A account \in Snapshot :
        LET l == cycleLog[account.address]
        IN (/\ l.seen
            /\ account.lastHealth > FIRST_THRESHOLD
            /\ account.lastHealth > SECOND_THRESHOLD
            /\ account.notifyAtFirstThreshold
            /\ account.notifyAtSecondThreshold
            /\ l.cur <= SECOND_THRESHOLD)
           => /\ l.tiers = <<"second">>
              /\ l.chats = <<account.chatId>>
              /\ l.delivered # << >> =>
                    /\ l.delivered = <<"second">>
                    /\ l.wrote
                    /\ l.rec.notifyAtFirstThreshold
                    /\ ~l.rec.notifyAtSecondThreshold
                    /\ Get(monitoredAccounts, account.address) = l.rec

C1_Witness ==
    \E account \in Snapshot :
        /\ account.lastHealth > FIRST_THRESHOLD
        /\ account.notifyAtFirstThreshold
        /\ account.notifyAtSecondThreshold
        /\ cycleLog[account.address].cur <= SECOND_THRESHOLD
        /\ cycleLog[account.address].delivered = <<"second">>
        /\ cycleLog[account.address].wrote

\* C2, its parts.  No tier is delivered twice without a computed health at or
\* above its buffered point in between.
NoRepeat ==
    \A a \in Addrs : sentSince[a].first <= 1 /\ sentSince[a].second <= 1

\* A record is written with a flag changed from the snapshot's only as the
\* claim says: disarmed only with that tier delivered in the cycle, armed only
\* with the new health at or above the buffered point, which always arms; a
\* record not written is the snapshot's.
FlagChanges ==
    \A account \in Snapshot :
        LET l == cycleLog[account.address]
        IN IF l.wrote
           THEN /\ (account.notifyAtFirstThreshold /\ ~l.rec.notifyAtFirstThreshold)
                    => l.delivered = <<"first">>
                /\ (account.notifyAtSecondThreshold /\ ~l.rec.notifyAtSecondThreshold)
                    => l.delivered = <<"second">>
                /\ (~account.notifyAtFirstThreshold /\ l.rec.notifyAtFirstThreshold)
                    => l.cur >= FIRST_THRESHOLD_WITH_BUFFER
                /\ (~account.notifyAtSecondThreshold /\ l.rec.notifyAtSecondThreshold)
                    => l.cur >= SECOND_THRESHOLD_WITH_BUFFER
                /\ l.cur >= FIRST_THRESHOLD_WITH_BUFFER => l.rec.notifyAtFirstThreshold
                /\ l.cur >= SECOND_THRESHOLD_WITH_BUFFER => l.rec.notifyAtSecondThreshold
                /\ l.rec.lastHealth = l.cur
           ELSE Get(monitoredAccounts, account.address) = account

\* An armed second tier fires on every drop from above its threshold to at or
\* below it.
SecondFiresWhenArmed ==
    \A account \in Snapshot :
        LET l == cycleLog[account.address]
        IN (/\ l.seen
            /\ account.notifyAtSecondThreshold
            /\ account.lastHealth > SECOND_THRESHOLD
            /\ l.cur <= SECOND_THRESHOLD)
           => l.tiers = <<"second">>

\* The claim's words for the first tier: armed, it fires on every such drop.
FirstFiresWhenArmed ==
    \A account \in Snapshot :
        LET l == cycleLog[account.address]
        IN (/\ l.seen
            /\ account.notifyAtFirstThreshold
            /\ account.lastHealth > FIRST_THRESHOLD
            /\ l.cur <= FIRST_THRESHOLD)
           => l.tiers = <<"first">>

\* The same, except in a cycle where the second tier fires.
FirstFiresUnlessSecond ==
    \A account \in Snapshot :
        LET l == cycleLog[account.address]
        IN (/\ l.seen
            /\ account.notifyAtFirstThreshold
            /\ account.lastHealth > FIRST_THRESHOLD
            /\ l.cur <= FIRST_THRESHOLD)
           => \/ l.tiers = <<"first">>
              \/ /\ l.tiers = <<"second">>
                 /\ account.notifyAtSecondThreshold
                 /\ l.cur <= SECOND_THRESHOLD

\* C2 as claimed: over the poll cycles of an account, a tier that was delivered
\* sends nothing more until a cycle computes a health at or above its buffered
\* point, its flag changes only by firing and by such a recovery, and once
\* re-armed the tier fires on the next drop from above its threshold to at or
\* below it.
C2_HysteresisAsClaimed ==
    NoRepeat /\ FlagChanges /\ SecondFiresWhenArmed /\ FirstFiresWhenArmed

\* C2 amended: the same, but the re-armed first tier does not fire on a drop
\* on which the second tier fires (only the second-tier message is sent and
\* the first tier stays armed).
C2_Hysteresis ==
    NoRepeat /\ FlagChanges /\ SecondFiresWhenArmed /\ FirstFiresUnlessSecond

\* the first tier was delivered, re-armed by a recovery, and delivered again
C2_Witness ==
    \E account \in Snapshot :
        /\ sentSince[account.address].firstEver = 2
        /\ sentSince[account.address].first = 1
        /\ cycleLog[account.address].delivered = <<"first">>
        /\ cycleLog[account.address].wrote

\* C3: for a monitored account, a cycle whose stored health is above
\* FIRST_THRESHOLD and whose new health is at or below it attempts the
\* first-tier notification, unless the second tier fires or a first-tier
\* notification was already delivered since the health was last computed at
\* or above FIRST_THRESHOLD_WITH_BUFFER.
C3_FirstTierOnCrossing ==
    \A account \in Snapshot :
        LET l == cycleLog[account.address]
        IN (/\ l.seen
            /\ account.lastHealth > FIRST_THRESHOLD
            /\ l.cur <= FIRST_THRESHOLD
            /\ l.tiers # <<"second">>
            /\ sentSince[account.address].first = 0)
           => l.tiers = <<"first">>

\* C6: no failure met while processing one account escapes the poll loop's
\* handlers, every account of the snapshot has been evaluated by the end of
\* the cycle, and an account whose health changed and that met no failure of
\* its own had its record set and its update sent to the table.
C6_Isolation ==
    /\ unhandled = {}
    /\ pc = "delay" =>
        \A account \in Snapshot :
            LET l == cycleLog[account.address]
            IN /\ l.seen \/ l.err # "none"
               /\ (l.seen /\ l.err = "none" /\ l.cur # account.lastHealth) => l.wrote

\* C7: for a log event whose transaction has a decoded AutoRepayStart
\* instruction, no notification is sent when caller = owner or when the owner
\* is not in the Map at the lookup, and exactly one, to the chat of the
\* owner's record, otherwise; no other chat gets a message for the event.
C7_AutoRepayNotification ==
    ev.hit.set =>
        IF ev.hit.caller # ev.hit.owner /\ ev.hit.monitored
        THEN ev.attempts = <<ev.hit.chat>>
        ELSE ev.attempts = << >>

\* C8: every cycle after the first starts after the inter-cycle delay.
C8_DelayBeforeEveryCycle ==
    [][(cycle' = cycle + 1 /\ cycle >= 1) => pollWait = "loop"]_vars

\* C9: the addresses a completed stopMonitoring removed are not in the Map
\* until startMonitoring adds them again, and the Map's keys are the
\* addresses of the table.
C9_RemovedStayRemoved ==
    /\ removed \cap Keys(monitoredAccounts) = {}
    /\ Keys(monitoredAccounts) = {a \in Addrs : db[a] # NoRec}

\* C10: the chatId of the Map's record for an address is the one of the
\* startMonitoring call that last added the address, and the table's.
C10_ChatIdFixed ==
    \A r \in {monitoredAccounts[i] : i \in 1..Len(monitoredAccounts)} :
        /\ r.chatId = addedBy[r.address]
        /\ db[r.address] # NoRec => db[r.address].chatId = r.chatId

\* the start handlers that end in this step
StartsEnding == {h \in cmds \ cmds' : h.kind = "start"}

C12_HealthRange ==
    /\ hq.done =>
        /\ hq.health \in 0..100
        /\ hq.raw <= 0 => hq.health = 0
        /\ hq.raw = QUARTZ_HEALTH_BUFFER_PERCENTAGE => hq.health = 0
        /\ hq.raw >= 100 => hq.health = 100
        /\ \A r \in HealthRaws : r <= hq.raw => getQuartzHealth(r) <= hq.health
    /\ \A i \in 1..Len(monitoredAccounts) : monitoredAccounts[i].lastHealth \in 0..100
    /\ \A h \in cmds : h.health \in 0..100

\* a negative raw health went through getQuartzHealth on its own, through
\* startMonitoring into the record of B and through the poll loop into A's
C12_Witness ==
    /\ hq.done /\ hq.raw < 0
    /\ Has(monitoredAccounts, "B") /\ Has(monitoredAccounts, "A")
    /\ cycleLog["A"].wrote
    /\ Get(monitoredAccounts, "A").lastHealth = hq.health
    /\ Get(monitoredAccounts, "B").lastHealth = hq.health

\* C13: a call with maxAttempts = n >= 1 whose every attempt fails with the
\* marker has invoked the operation n times, has waited n - 1 times (not
\* after the last failure) and has thrown.
C13_ExhaustionWaits ==
    (/\ rt.retries >= 1
     /\ Len(rt.outs) = rt.retries
     /\ \A j \in 1..Len(rt.outs) : rt.outs[j] = rt.errorContains)
    => /\ rt.rs.status = "thrown"
       /\ rt.rs.calls = rt.retries
       /\ Len(rt.rs.waits) = rt.retries - 1

\* C14: when a cycle takes its snapshot, no send and no updateAccount call of
\* an earlier cycle is still unsettled, and an update that settles is not
\* overtaking an older one for the same address.
C14_NoOverlap ==
    [][/\ cycle' = cycle + 1 => (pendingUpdates = {} /\ sendRt = RetryIdle)
       /\ \A u \in pendingUpdates \ pendingUpdates' :
             \A v \in pendingUpdates' :
                v.rec.address = u.rec.address => v.cycle > u.cycle]_vars

\* C15: an updateAccount call of the poll loop that fails (no row for the
\* address, or its retries exhausted) is caught by the handler around it:
\* no update settles into a rejection that nobody handles.
C15_UpdateFailureCaught ==
    [][\A u \in pendingUpdates \ pendingUpdates' : unhandled' = unhandled]_vars

\* the updateAccount calls the running cycle started for address a
IssuedFor(a) == {u \in pendingUpdates : u.cycle = cycle /\ u.rec.address = a}

\* C16 as claimed: at the end of a cycle every account whose health was
\* computed and differs from the stored one has its record set to the new
\* health, delivery succeeded or not.
C16_UpdateAsClaimed ==
    pc = "delay" =>
        \A account \in Snapshot :
            LET l == cycleLog[account.address]
            IN (l.seen /\ l.cur # account.lastHealth)
                => /\ l.wrote
                   /\ Get(monitoredAccounts, account.address).lastHealth = l.cur

\* C16 amended: the same holds, with the flags the evaluation and the re-arm
\* give and with an updateAccount call issued for the record, unless a
\* notification was due and its delivery failed: then the record is left as
\* it was and no update is issued.
C16_Update ==
    pc = "delay" =>
        \A account \in Snapshot :
            LET l == cycleLog[account.address]
                a == account.address
                e == Evaluate(account, l.cur)
                re == Rearm(l.cur, e.first, e.second)
            IN (l.seen /\ l.cur # account.lastHealth)
                => IF l.err = "send"
                   THEN /\ ~l.wrote
                        /\ l.delivered = << >>
                        /\ Get(monitoredAccounts, a) = account
                        /\ IssuedFor(a) = {}
                   ELSE /\ l.wrote
                        /\ l.delivered = l.tiers
                        /\ Get(monitoredAccounts, a)
                              = Rec(a, account.chatId, l.cur, re.first, re.second)
                        /\ IssuedFor(a)
                              = {[rec |-> Get(monitoredAccounts, a), cycle |-> cycle]}

\* a cycle ended in which A was updated without a notification and B was
\* updated after one
C16_Witness ==
    /\ pc = "delay"
    /\ \E x \in Snapshot, y \in Snapshot :
          /\ cycleLog[x.address].wrote /\ cycleLog[x.address].tiers = << >>
          /\ cycleLog[x.address].cur # x.lastHealth
          /\ cycleLog[y.address].wrote /\ cycleLog[y.address].delivered # << >>

\* C17: an account for which the fetch returned no user account is skipped:
\* no health is taken for it, no message is sent, its record stays as the
\* snapshot has it and no update is issued; the other accounts of the
\* cycle are still processed.
C17_MissingSkipped ==
    \A account \in Snapshot :
        LET l == cycleLog[account.address]
            a == account.address
        IN l.err = "notFound"
            => /\ ~l.seen
               /\ l.tiers = << >>
               /\ ~l.wrote
               /\ Get(monitoredAccounts, a) = account
               /\ IssuedFor(a) = {}
               /\ pc = "delay" =>
                     \A other \in Snapshot :
                        cycleLog[other.address].seen \/ cycleLog[other.address].err # "none"

\* a cycle ended in which A had no user account and B, after it, was updated
C17_Witness ==
    /\ pc = "delay"
    /\ Len(entries) = 2
    /\ cycleLog[entries[1].address].err = "notFound"
    /\ cycleLog[entries[2].address].wrote

\* C18: an account whose computed health equals the stored one gets no
\* message, no Map write and no update, and its flags stay.
C18_UnchangedNoOp ==
    \A account \in Snapshot :
        LET l == cycleLog[account.address]
            a == account.address
        IN (l.seen /\ l.cur = account.lastHealth)
            => /\ l.tiers = << >>
               /\ ~l.wrote
               /\ Get(monitoredAccounts, a) = account
               /\ IssuedFor(a) = {}

\* the first tier fired in an earlier cycle and a later cycle ended with the
\* health still where it was
C18_Witness ==
    /\ pc = "delay"
    /\ \E account \in Snapshot :
          /\ cycleLog[account.address].seen
          /\ cycleLog[account.address].cur = account.lastHealth
          /\ account.lastHealth <= FIRST_THRESHOLD
          /\ sentSince[account.address].first = 1

\* the listener's log entries that classify a decoded instruction
Classified ==
    SelectSeq(ev.logs, LAMBDA x : x \in {"manual repay", "auto-repay notification sent",
                                         "auto-repay for unmonitored account"})

\* C19: when the handler of a log event has ended and an AutoRepayStart
\* instruction was decoded, exactly one classification was logged: 'manual
\* repay' when caller = owner, monitored or not, 'auto-repay notification
\* sent' when caller # owner and the owner was in the Map, 'auto-repay for
\* unmonitored account' when caller # owner and the owner was not.
C19_OneClassification ==
    (ev.pc = "done" /\ ev.hit.set) =>
        Classified = << IF ev.hit.caller = ev.hit.owner THEN "manual repay"
                        ELSE IF ev.hit.monitored THEN "auto-repay notification sent"
                        ELSE "auto-repay for unmonitored account" >>

\* C20: 'could not decode instruction' is logged only when no instruction of
\* the transaction decoded as AutoRepayStart, and once a send was attempted
\* for a decoded instruction no later instruction is handled: no second
\* send, and no log entry but that of the notification sent.
C20_OnlyDecodeFailuresSwallowed ==
    ev.hit.set =>
        /\ \A j \in 1..Len(ev.logs) : ev.logs[j] # "error: Could not decode instruction"
        /\ Len(ev.attempts) <= 1
        /\ ev.attempts # << >> =>
              \A j \in 1..Len(ev.logs) : ev.logs[j] = "auto-repay notification sent"

\* C21: the auto-repay notification is sent through the retry of the
\* threshold notifications: a send that fails with the delivery marker is
\* tried again, so when the handler of the event has ended after a send was
\* attempted, the notification was delivered or PollRetries attempts failed.
C21_AutoRepayRetried ==
    (ev.pc = "done" /\ ev.attempts # << >>)
        => \/ ev.delivered # << >>
           \/ Len(ev.attempts) >= PollRetries

\* C22: no failure in a poll cycle ends the poll loop: with every awaited
\* call settling and every timer firing, each cycle is followed by the start
\* of the next one (up to the last cycle tried).
C22_PollerLive ==
    \A n \in 0..(MaxPollCycles - 1) : (cycle = n) ~> (cycle = n + 1)

\* C23: a threshold notification whose delivery failed for good leaves the
\* account's record in the Map as the snapshot has it (old lastHealth, the
\* tier armed) and issues no update of its row; and in the next cycle that
\* computes a health for the account and still observes the crossing (the
\* health at or below the tier's threshold, and for the first tier above
\* SECOND_THRESHOLD) the same notification is attempted again.
C23_RetriedNextCycle ==
    \A account \in Snapshot :
        LET a == account.address
            l == cycleLog[a]
        IN /\ l.err = "send" =>
                /\ l.delivered = << >>
                /\ ~l.wrote
                /\ Get(monitoredAccounts, a) = account
                /\ IssuedFor(a) = {}
                /\ l.tiers = <<"first">> =>
                      /\ Get(monitoredAccounts, a).notifyAtFirstThreshold
                      /\ Get(monitoredAccounts, a).lastHealth > FIRST_THRESHOLD
                /\ l.tiers = <<"second">> =>
                      /\ Get(monitoredAccounts, a).notifyAtSecondThreshold
                      /\ Get(monitoredAccounts, a).lastHealth > SECOND_THRESHOLD
           /\ (l.seen /\ l.prev = "second" /\ l.cur <= SECOND_THRESHOLD)
                => l.tiers = <<"second">>
           /\ (l.seen /\ l.prev = "first"
                      /\ l.cur <= FIRST_THRESHOLD /\ l.cur > SECOND_THRESHOLD)
                => l.tiers = <<"first">>

\* the delivery of the first-tier message failed in an earlier cycle and the
\* message was attempted again and delivered in this one
C23_Witness ==
    \E account \in Snapshot :
        /\ cycleLog[account.address].prev = "first"
        /\ cycleLog[account.address].delivered = <<"first">>
        /\ cycleLog[account.address].wrote

\* a record whose health is at or above a tier's buffered point has that
\* tier armed
ArmedAboveBuffer(r) ==
    /\ ~r.notifyAtFirstThreshold => r.lastHealth < FIRST_THRESHOLD_WITH_BUFFER
    /\ ~r.notifyAtSecondThreshold => r.lastHealth < SECOND_THRESHOLD_WITH_BUFFER

\* C24: every record that startMonitoring or a poll cycle put in the Map,
\* every row addAccount inserted and every record sent to updateAccount has
\* lastHealth below FIRST_THRESHOLD_WITH_BUFFER when its first tier is
\* disarmed and below SECOND_THRESHOLD_WITH_BUFFER when its second tier is.
C24_DisarmedBelowBuffer ==
    /\ \A i \in 1..Len(monitoredAccounts) : ArmedAboveBuffer(monitoredAccounts[i])
    /\ \A a \in Addrs : ArmedAboveBuffer(db[a])
    /\ \A u \in pendingUpdates : ArmedAboveBuffer(u.rec)

\* a poll cycle wrote a record whose first tier it re-armed, next to a record
\* that startMonitoring wrote with the first tier disarmed
C24_Witness ==
    /\ \E account \in Snapshot :
          /\ cycleLog[account.address].wrote
          /\ ~account.notifyAtFirstThreshold
          /\ cycleLog[account.address].rec.notifyAtFirstThreshold
          /\ Get(monitoredAccounts, account.address) = cycleLog[account.address].rec
    /\ Has(monitoredAccounts, "B")
    /\ ~Get(monitoredAccounts, "B").notifyAtFirstThreshold
    /\ Get(monitoredAccounts, "B").notifyAtSecondThreshold

\* the persisted-storage call of a command that settled in this step
CallSettled == IF callLog' # callLog THEN {callLog'[Len(callLog')]} ELSE {}

\* C25: a step of a command handler changes the Map only when it is the step
\* in which its addAccount or removeAccounts call succeeded: when the call
\* failed, and in every other step of a command, the Map is left exactly as
\* it was; after a successful addAccount the one change is the record of the
\* inserted row, after a successful removeAccounts the deletion of the chat's
\* addresses.
C25_RegistryAfterPersisted ==
    [][(cmds' # cmds \/ ncmds' # ncmds) =>
          /\ (\A c \in CallSettled : ~c.ok) => monitoredAccounts' = monitoredAccounts
          /\ \A c \in CallSettled : \A h \in cmds \ cmds' :
                (c.ok /\ c.call = "addAccount")
                    => monitoredAccounts' = SetAccount(monitoredAccounts, db'[h.address])
          /\ \A c \in CallSettled : \A h \in cmds \ cmds' :
                (c.ok /\ c.call = "removeAccounts")
                    => monitoredAccounts' = DeleteAccounts(monitoredAccounts, h.addresses)]_vars

\* A is stored; a registration of B ended with addAccount failing and a /stop
\* of A's chat with removeAccounts failing, and the Map holds A alone
C25_Witness ==
    /\ \E i \in 1..Len(callLog) : callLog[i] = Settled("addAccount", FALSE)
    /\ \E i \in 1..Len(callLog) : callLog[i] = Settled("removeAccounts", FALSE)
    /\ Keys(monitoredAccounts) = {"A"}
    /\ cmds = {}

\* C26: whenever an attempt to send a threshold notification goes out, the
\* address it is for is in the Map, the chat it goes to is the chatId of the
\* Map's record, and the address is not one that a completed stopMonitoring
\* removed.
C26_SendOnlyToRegistered ==
    [][(pc' = "send" /\ <<pc, idx, sendRt>> # <<pc', idx', sendRt'>>) =>
          LET account == entries'[idx']
          IN /\ Has(monitoredAccounts', account.address)
             /\ Get(monitoredAccounts', account.address).chatId = account.chatId
             /\ account.address \notin removed']_vars
====
